---- MODULE Spec2Model ----
(***************************************************************************)
(* Model of src/tasks.py: the robot ordering task.  One sequential         *)
(* program (pc is its position), a browser page, a web server and the      *)
(* output directories.  The outcomes of page calls (a check raising, the   *)
(* server showing its alert, a click failing) are chosen by the            *)
(* environment.  The file system outlives a run; a run can be started      *)
(* again after it ended.                                                   *)
(***************************************************************************)
EXTENDS Integers, Sequences, FiniteSets, TLC

\* ---- bounds of the model
MaxRows == 2
MaxOrderNo == 2
MaxRuns == 2

\* ---- program constants
MAX_RETRIES == 10

ORDERS_CSV_FILE == "orders.csv"

OrderNos == 1..MaxOrderNo
RowIdx == 1..MaxRows

RECURSIVE SeqsUpTo(_)
SeqsUpTo(n) ==
    IF n = 0 THEN {<<>>}
    ELSE LET S == SeqsUpTo(n - 1)
         IN  S \cup {Append(s, x) : s \in {t \in S : Len(t) = n - 1}, x \in OrderNos}

\* what the server can serve as orders.csv: the column of order numbers
Feeds == SeqsUpTo(MaxRows)

EmptyDir == [x \in {} |-> x]

\* ---- file names (f-strings of screenshot_robot, store_receipt_as_pdf)
ScreenshotName(order_no) == <<"screenshot_", order_no, ".png">>

ReceiptName_fixed(order_no) == <<"receipt_", 0, ".pdf">>
ReceiptName(order_no) == <<"receipt_", order_no, ".pdf">>

\* a file that is no receipt of any run, found in the receipts directory
ForeignName == <<"notes", 0, ".txt">>
\* content of a file no step of the current run wrote
OldShot == [fresh |-> FALSE, row |-> 0]
OldFile == [fresh |-> FALSE, row |-> 0, img |-> <<"", 0, "">>]

NoArchive == [exists |-> FALSE, entries |-> EmptyDir]

NoError == [kind |-> "none", stage |-> "none", row |-> 0, msg |-> <<>>]

VARIABLES
    pc,           \* position of the task
    run,          \* number of the current run
    modal,        \* page: the modal dialog is shown
    alert,        \* page: the server-error alert is shown
    downloads,    \* working directory: file name -> content
    screenshots,  \* output/orders_screenshots: file name -> content
    receipts,     \* output/receipt_pdf: file name -> content
    archive,      \* output/receipts_zip.zip
    rows,         \* the table read from the CSV
    i,            \* number of the row being processed (0: none yet)
    attempt,      \* loop variable of submit_order_with_retry
    submitState,  \* IDLE, ATTEMPTING, SUCCEEDED, FAILED
    error,        \* the exception that ended the run, if any
    \* history of the run
    obs,          \* results of the alert checks of the current order
    clicks,       \* submit clicks of the current order
    steps,        \* page steps of the current order
    touched,      \* rows for which some step ran
    shotWrites,   \* row -> names of the screenshots it wrote
    rcptWrites,   \* row -> names of the receipts it wrote
    archiveCalls, \* calls of archive_receipts
    zipWrites,    \* zips written
    modalCheck,   \* result of the modal check just made ("none": none)
    okClicks,     \* OK clicks of the close_annoying_modal just made
    alertShown,   \* the server showed its alert in this run
    startFiles,   \* files of the receipts directory when the run began
    feed,         \* content served by the last download
    replaced      \* a download replaced a file of other content

diskVars == <<downloads, screenshots, receipts, archive>>
pageVars == <<modal, alert>>
orderVars == <<attempt, submitState, obs, clicks, steps>>
writeVars == <<shotWrites, rcptWrites>>
modalVars == <<modalCheck, okClicks>>
feedVars == <<feed, replaced>>
runVars == <<run, startFiles>>
histVars == <<touched, archiveCalls, zipWrites, alertShown>>

vars == <<pc, rows, i, error, diskVars, pageVars, orderVars, writeVars,
          modalVars, feedVars, runVars, histVars>>

\* ---- control flow

\* statement order of order_robots_from_RobotSpareBin and
\* fill_and_submit_orders
NextStep_shotLate(s) ==
    CASE s = "setup" -> "goto"
      [] s = "goto" -> "modal0"
      [] s = "modal0" -> "download"
      [] s = "download" -> "read"
      [] s = "read" -> "loop"
      [] s = "fill" -> "preview"
      [] s = "preview" -> "submit"
      [] s = "submit" -> "screenshot"
      [] s = "screenshot" -> "receipt"
      [] s = "receipt" -> "another"
      [] s = "another" -> "modal"
      [] s = "modal" -> "loop"
      [] s = "archive" -> "done"
      [] OTHER -> s

NextStep(s) ==
    CASE s = "setup" -> "goto"
      [] s = "goto" -> "modal0"
      [] s = "modal0" -> "download"
      [] s = "download" -> "read"
      [] s = "read" -> "loop"
      [] s = "fill" -> "preview"
      [] s = "preview" -> "screenshot"
      [] s = "screenshot" -> "submit"
      [] s = "submit" -> "receipt"
      [] s = "receipt" -> "another"
      [] s = "another" -> "modal"
      [] s = "modal" -> "loop"
      [] s = "archive" -> "done"
      [] OTHER -> s

\* for row in table: ... ; then archive_receipts()
LoopTarget_early(idx, n) == IF idx < n /\ idx < 1 THEN "fill" ELSE "archive"
LoopTarget(idx, n) == IF idx < n THEN "fill" ELSE "archive"

\* an exception is caught nowhere between the failing call and the task
OnFatal_skip(stage) ==
    IF stage \in {"fill", "preview", "screenshot", "submit", "receipt", "another"}
    THEN "loop" ELSE "aborted"
OnFatal(stage) == "aborted"

\* ---- pure parts of the code

\* is_visible: the state of the element, or an exception
CheckOutcomes(shown) == {IF shown THEN "visible" ELSE "hidden", "raised"}

\* has_server_error: try: return is_visible() except: return False
HasServerError_retry(outcome) == outcome # "hidden"
HasServerError(outcome) == IF outcome = "raised" THEN FALSE ELSE outcome = "visible"

\* close_annoying_modal: clicks of the OK button for a check result
ModalClicks_always(outcome) == IF outcome = "hidden" THEN 0 ELSE 1
ModalClicks(outcome) == IF outcome = "visible" THEN 1 ELSE 0

\* submit_order_with_retry: if not has_server_error(): return True
ReturnsTrue_late(att, err) == ~err /\ att > 0
ReturnsTrue(att, err) == ~err

\* range(max_retries) has no value after att
LoopExhausted_off(att, max_retries) == att >= max_retries
LoopExhausted(att, max_retries) == att + 1 >= max_retries

\* the message of the exception raised after the loop
FailureMessage(max_retries) == <<"Order failed after ", max_retries, " retry attempts">>

\* HTTP().download(url, overwrite=...): the file named after the url
Download_append(files, name, body, overwrite) ==
    IF name \in DOMAIN files
    THEN (name :> (files[name] \o body)) @@ files
    ELSE (name :> body) @@ files
Download(files, name, body, overwrite) ==
    IF name \in DOMAIN files /\ ~overwrite
    THEN files
    ELSE (name :> body) @@ files

\* archive_folder_with_zip(folder, path): a new zip of the folder's files
ArchiveFolder_keep(dir, old) ==
    IF old.exists THEN old ELSE [exists |-> TRUE, entries |-> dir]
ArchiveFolder(dir, old) == [exists |-> TRUE, entries |-> dir]

NoWrites == [r \in RowIdx |-> <<>>]

\* ---- initial state: nothing ran; the receipts directory may hold a file
Init ==
    /\ pc = "setup"
    /\ run = 1
    /\ modal = FALSE
    /\ alert = FALSE
    /\ downloads = EmptyDir
    /\ screenshots = EmptyDir
    /\ receipts \in {EmptyDir, ForeignName :> OldFile}
    /\ archive = NoArchive
    /\ rows = <<>>
    /\ i = 0
    /\ attempt = 0
    /\ submitState = "IDLE"
    /\ error = NoError
    /\ obs = <<>>
    /\ clicks = 0
    /\ steps = <<>>
    /\ touched = {}
    /\ shotWrites = NoWrites
    /\ rcptWrites = NoWrites
    /\ archiveCalls = 0
    /\ zipWrites = 0
    /\ modalCheck = "none"
    /\ okClicks = 0
    /\ alertShown = FALSE
    /\ startFiles = DOMAIN receipts
    /\ feed = <<>>
    /\ replaced = FALSE

\* a call of stage raises: the exception leaves the task
Fatal(stage, message) ==
    /\ pc' = OnFatal(stage)
    /\ error' = [kind |-> IF message = <<>> THEN "step" ELSE "retry",
                 stage |-> stage, row |-> i, msg |-> message]


\* lines 100-105: the output directories exist afterwards (exist_ok), with
\* whatever they held; the page object is created
Setup ==
    /\ pc = "setup"
    /\ pc' = NextStep("setup")
    /\ UNCHANGED <<rows, i, error, diskVars, pageVars, orderVars, writeVars,
                   modalVars, feedVars, runVars, histVars>>

\* open_robot_order_website: page.goto; the site may show its modal
OpenWebsite ==
    /\ pc = "goto"
    /\ \/ /\ modal' \in BOOLEAN
          /\ alert' = FALSE
          /\ pc' = NextStep("goto")
          /\ UNCHANGED error
       \/ /\ Fatal("goto", <<>>)
          /\ UNCHANGED pageVars
    /\ UNCHANGED <<rows, i, diskVars, orderVars, writeVars, modalVars,
                   feedVars, runVars, histVars>>

\* close_annoying_modal, after page load and after every order
CloseModal ==
    /\ pc \in {"modal0", "modal"}
    /\ \E outcome \in CheckOutcomes(modal), clickOk \in BOOLEAN :
          /\ modalCheck' = outcome
          /\ okClicks' = ModalClicks(outcome)
          /\ modal' = IF ModalClicks(outcome) > 0 /\ clickOk THEN FALSE ELSE modal
    /\ steps' = IF pc = "modal" THEN Append(steps, "modal") ELSE steps
    /\ pc' = NextStep(pc)
    /\ UNCHANGED <<rows, i, error, diskVars, alert, attempt, submitState, obs,
                   clicks, writeVars, feedVars, runVars, histVars>>

\* download_csv
DownloadCsv ==
    /\ pc = "download"
    /\ \/ \E body \in Feeds :
             /\ downloads' = Download(downloads, ORDERS_CSV_FILE, body, TRUE)
             /\ feed' = body
             /\ replaced' = (replaced \/ (ORDERS_CSV_FILE \in DOMAIN downloads
                                          /\ downloads[ORDERS_CSV_FILE] # body))
             /\ pc' = NextStep("download")
             /\ UNCHANGED error
       \/ /\ Fatal("download", <<>>)
          /\ UNCHANGED <<downloads, feedVars>>
    /\ modalCheck' = "none"
    /\ okClicks' = 0
    /\ UNCHANGED <<rows, i, screenshots, receipts, archive, pageVars, orderVars,
                   writeVars, runVars, histVars>>

\* get_orders_from_csv, lines 187-189: the table of the downloaded file
ReadCsv ==
    /\ pc = "read"
    /\ \/ /\ ORDERS_CSV_FILE \in DOMAIN downloads
          /\ rows' = downloads[ORDERS_CSV_FILE]
          /\ pc' = NextStep("read")
          /\ UNCHANGED error
       \/ /\ Fatal("read", <<>>)
          /\ UNCHANGED rows
    /\ UNCHANGED <<i, diskVars, pageVars, orderVars, writeVars, modalVars,
                   feedVars, runVars, histVars>>

\* get_orders_from_csv, lines 192-193: the next row, or the end of the loop
LoopHead ==
    /\ pc = "loop"
    /\ pc' = LoopTarget(i, Len(rows))
    /\ IF LoopTarget(i, Len(rows)) = "fill"
       THEN /\ i' = i + 1
            /\ attempt' = 0
            /\ submitState' = "IDLE"
            /\ obs' = <<>>
            /\ clicks' = 0
            /\ steps' = <<>>
       ELSE UNCHANGED <<i, orderVars>>
    /\ modalCheck' = "none"
    /\ okClicks' = 0
    /\ UNCHANGED <<rows, error, diskVars, pageVars, writeVars, feedVars, runVars,
                   histVars>>

\* fill_and_submit_orders, lines 150-154
FillForm ==
    /\ pc = "fill"
    /\ touched' = touched \cup {i}
    /\ \/ /\ steps' = Append(steps, "fill")
          /\ pc' = NextStep("fill")
          /\ UNCHANGED error
       \/ /\ Fatal("fill", <<>>)
          /\ UNCHANGED steps
    /\ UNCHANGED <<rows, i, diskVars, pageVars, attempt, submitState, obs, clicks,
                   writeVars, modalVars, feedVars, runVars, archiveCalls,
                   zipWrites, alertShown>>

\* fill_and_submit_orders, line 157
ClickPreview ==
    /\ pc = "preview"
    /\ \/ /\ steps' = Append(steps, "preview")
          /\ pc' = NextStep("preview")
          /\ UNCHANGED error
       \/ /\ Fatal("preview", <<>>)
          /\ UNCHANGED steps
    /\ UNCHANGED <<rows, i, diskVars, pageVars, attempt, submitState, obs, clicks,
                   writeVars, modalVars, feedVars, runVars, histVars>>

\* screenshot_robot
ScreenshotRobot ==
    /\ pc = "screenshot"
    /\ \/ /\ screenshots' =
                (ScreenshotName(rows[i]) :> [fresh |-> TRUE, row |-> i]) @@ screenshots
          /\ shotWrites' = [shotWrites EXCEPT ![i] = Append(@, ScreenshotName(rows[i]))]
          /\ steps' = Append(steps, "screenshot")
          /\ pc' = NextStep("screenshot")
          /\ UNCHANGED error
       \/ /\ Fatal("screenshot", <<>>)
          /\ UNCHANGED <<screenshots, shotWrites, steps>>
    /\ UNCHANGED <<rows, i, downloads, receipts, archive, pageVars, attempt,
                   submitState, obs, clicks, rcptWrites, modalVars, feedVars,
                   runVars, histVars>>

\* submit_order_with_retry: one iteration of the loop, and the raise after
\* the last one
SubmitAttempt ==
    /\ pc = "submit"
    /\ \/ \E shown \in BOOLEAN :
          \E outcome \in CheckOutcomes(shown) :
             /\ alert' = shown
             /\ alertShown' = (alertShown \/ shown)
             /\ clicks' = clicks + 1
             /\ steps' = Append(steps, "click")
             /\ obs' = Append(obs, outcome)
             /\ IF ReturnsTrue(attempt, HasServerError(outcome))
                THEN /\ submitState' = "SUCCEEDED"
                     /\ pc' = NextStep("submit")
                     /\ UNCHANGED <<attempt, error>>
                ELSE IF LoopExhausted(attempt, MAX_RETRIES)
                THEN /\ submitState' = "FAILED"
                     /\ Fatal("submit", FailureMessage(MAX_RETRIES))
                     /\ UNCHANGED attempt
                ELSE /\ submitState' = "ATTEMPTING"
                     /\ attempt' = attempt + 1
                     /\ UNCHANGED <<pc, error>>
       \/ /\ Fatal("submit", <<>>)
          /\ UNCHANGED <<alert, alertShown, clicks, steps, obs,
                         attempt, submitState>>
    /\ UNCHANGED <<rows, i, diskVars, modal, writeVars, modalVars, feedVars,
                   runVars, touched, archiveCalls, zipWrites>>

\* the path of the screenshot as store_receipt_as_pdf writes it (line 254)
ScreenshotRef(order_no) == <<"screenshot_", order_no, ".png">>

\* store_receipt_as_pdf
StoreReceipt ==
    /\ pc = "receipt"
    /\ \/ /\ receipts' =
                (ReceiptName(rows[i]) :>
                    [fresh |-> TRUE, row |-> i, img |-> ScreenshotRef(rows[i])])
                @@ receipts
          /\ rcptWrites' = [rcptWrites EXCEPT ![i] = Append(@, ReceiptName(rows[i]))]
          /\ steps' = Append(steps, "receipt")
          /\ pc' = NextStep("receipt")
          /\ UNCHANGED error
       \/ /\ Fatal("receipt", <<>>)
          /\ UNCHANGED <<receipts, rcptWrites, steps>>
    /\ UNCHANGED <<rows, i, downloads, screenshots, archive, pageVars, attempt,
                   submitState, obs, clicks, shotWrites, modalVars, feedVars,
                   runVars, histVars>>

\* fill_and_submit_orders, line 166: the form is reset, a modal may show
OrderAnother ==
    /\ pc = "another"
    /\ \/ /\ modal' \in BOOLEAN
          /\ alert' = FALSE
          /\ steps' = Append(steps, "another")
          /\ pc' = NextStep("another")
          /\ UNCHANGED error
       \/ /\ Fatal("another", <<>>)
          /\ UNCHANGED <<pageVars, steps>>
    /\ UNCHANGED <<rows, i, diskVars, attempt, submitState, obs, clicks,
                   writeVars, modalVars, feedVars, runVars, histVars>>

\* archive_receipts
ArchiveReceipts ==
    /\ pc = "archive"
    /\ archiveCalls' = archiveCalls + 1
    /\ \/ /\ archive' = ArchiveFolder(receipts, archive)
          /\ zipWrites' = zipWrites + 1
          /\ pc' = NextStep("archive")
          /\ UNCHANGED error
       \/ /\ Fatal("archive", <<>>)
          /\ UNCHANGED <<archive, zipWrites>>
    /\ UNCHANGED <<rows, i, downloads, screenshots, receipts, pageVars,
                   orderVars, writeVars, modalVars, feedVars, runVars, touched,
                   alertShown>>

\* the task is started again; the files of the earlier runs are still there
Rerun ==
    /\ pc \in {"done", "aborted"}
    /\ run < MaxRuns
    /\ run' = run + 1
    /\ startFiles' = DOMAIN receipts
    /\ pc' = "setup"
    /\ modal' = FALSE
    /\ alert' = FALSE
    /\ rows' = <<>>
    /\ i' = 0
    /\ attempt' = 0
    /\ submitState' = "IDLE"
    /\ error' = NoError
    /\ obs' = <<>>
    /\ clicks' = 0
    /\ steps' = <<>>
    /\ touched' = {}
    /\ shotWrites' = NoWrites
    /\ rcptWrites' = NoWrites
    /\ archiveCalls' = 0
    /\ zipWrites' = 0
    /\ modalCheck' = "none"
    /\ okClicks' = 0
    /\ alertShown' = FALSE
    /\ screenshots' = [n \in DOMAIN screenshots |-> OldShot]
    /\ receipts' = [n \in DOMAIN receipts |-> OldFile]
    /\ archive' = [archive EXCEPT !.entries = [n \in DOMAIN @ |-> OldFile]]
    /\ UNCHANGED <<downloads, feedVars>>

Next ==
    \/ Setup
    \/ OpenWebsite
    \/ CloseModal
    \/ DownloadCsv
    \/ ReadCsv
    \/ LoopHead
    \/ FillForm
    \/ ClickPreview
    \/ ScreenshotRobot
    \/ SubmitAttempt
    \/ StoreReceipt
    \/ OrderAnother
    \/ ArchiveReceipts
    \/ Rerun

Spec == Init /\ [][Next]_vars


\* ---- properties

OrderStages == {"fill", "preview", "screenshot", "submit", "receipt", "another"}

Range(q) == {q[k] : k \in 1..Len(q)}

AllVisible(q, k) == \A j \in 1..k : q[j] = "visible"

\* C1: for every k < MAX_RETRIES, once the alert check has returned visible
\* after the first k submit clicks and not visible after click k+1, the
\* order has had exactly k+1 submit clicks and no more checks, and the
\* submit has SUCCEEDED; this stays so until the next order begins.
C1_RetryUntilSuccess ==
    \A k \in 0..(MAX_RETRIES - 1) :
        (Len(obs) >= k + 1 /\ AllVisible(obs, k) /\ obs[k + 1] = "hidden")
        => /\ clicks = k + 1
           /\ Len(obs) = k + 1
           /\ submitState = "SUCCEEDED"
           /\ error.kind # "retry"

\* C1 witness: three alerts, then none; the receipt is written and the
\* order still has its four clicks
C1_Witness ==
    /\ pc = "another"
    /\ obs = <<"visible", "visible", "visible", "hidden">>
    /\ clicks = 4
    /\ submitState = "SUCCEEDED"

\* C2: an order never has more than MAX_RETRIES submit clicks; while every
\* check so far returned visible the submit has not succeeded; when all
\* MAX_RETRIES checks returned visible the submit is FAILED after exactly
\* MAX_RETRIES clicks and the run has ended with the exception whose message
\* names that number; FAILED is reached in no other way.
C2_RetryExhaustion ==
    /\ clicks <= MAX_RETRIES
    /\ AllVisible(obs, Len(obs)) => submitState # "SUCCEEDED"
    /\ (Len(obs) = MAX_RETRIES /\ AllVisible(obs, MAX_RETRIES))
       => /\ submitState = "FAILED"
          /\ clicks = MAX_RETRIES
          /\ pc = "aborted"
          /\ error.kind = "retry"
          /\ error.msg = <<"Order failed after ", clicks, " retry attempts">>
    /\ submitState = "FAILED"
       => /\ clicks = MAX_RETRIES
          /\ AllVisible(obs, Len(obs))
          /\ error.kind = "retry"

\* C2 witness: ten alerts in a row
C2_Witness ==
    /\ submitState = "FAILED"
    /\ clicks = 10
    /\ Len(obs) = 10
    /\ pc = "aborted"

\* C3: a row writes at most one screenshot and at most one receipt, to
\* screenshot_<n>.png and receipt_<n>.pdf with n the row's order number,
\* however often its submit was clicked; in a run that reached its end every
\* row of the table wrote exactly one of each.
C3_OneScreenshotOneReceipt ==
    /\ \A r \in RowIdx :
          /\ Len(shotWrites[r]) <= 1
          /\ Len(rcptWrites[r]) <= 1
          /\ shotWrites[r] # <<>>
             => /\ r <= Len(rows)
                /\ shotWrites[r][1] = <<"screenshot_", rows[r], ".png">>
                /\ shotWrites[r][1] \in DOMAIN screenshots
          /\ rcptWrites[r] # <<>>
             => /\ r <= Len(rows)
                /\ rcptWrites[r][1] = <<"receipt_", rows[r], ".pdf">>
                /\ rcptWrites[r][1] \in DOMAIN receipts
    /\ pc \in {"archive", "done"}
       => \A r \in 1..Len(rows) : Len(shotWrites[r]) = 1 /\ Len(rcptWrites[r]) = 1

\* C3 witness: a finished run of two rows, the second submitted three times
C3_Witness ==
    /\ pc = "done"
    /\ Len(rows) = 2
    /\ clicks = 3
    /\ Len(shotWrites[2]) = 1
    /\ Len(rcptWrites[2]) = 1

\* C4: archive_receipts is called at most once in a run, and only when every
\* row of the table has been processed up to and including the modal check
\* after it; a run that reached its end called it once and wrote one zip; a
\* run ended by an exception of a step before it (retry exhaustion among
\* them) never called it, wrote no zip and left the zip of earlier runs, if
\* any, as it was.
C4_ArchiveOnceAtEnd ==
    /\ archiveCalls <= 1
    /\ zipWrites <= archiveCalls
    /\ (pc = "archive" \/ archiveCalls = 1)
       => /\ i = Len(rows)
          /\ touched = 1..Len(rows)
          /\ i > 0 => (steps # <<>> /\ steps[Len(steps)] = "modal")
          /\ \A r \in 1..Len(rows) : rcptWrites[r] # <<>>
    /\ pc = "done" => (archiveCalls = 1 /\ zipWrites = 1)
    /\ (error.kind # "none" /\ error.stage # "archive")
       => /\ archiveCalls = 0
          /\ zipWrites = 0
          /\ \A n \in DOMAIN archive.entries : ~archive.entries[n].fresh

\* C4 witness: a finished run of two rows
C4_Witness ==
    /\ pc = "done"
    /\ Len(rows) = 2
    /\ archiveCalls = 1
    /\ zipWrites = 1

\* C5 as amended: at the end of a run the zip holds every file of the
\* receipts directory, those that were there before the run included, and
\* nothing else, whatever zip was there before; a run over the rows 1 and 2
\* without any alert wrote exactly the screenshots and the receipts of 1 and
\* 2, and its zip holds those two receipts and the files the directory began
\* with.
C5_ArchiveHoldsDirectory ==
    /\ pc = "done" => archive = [exists |-> TRUE, entries |-> receipts]
    /\ (pc = "done" /\ rows = <<1, 2>> /\ ~alertShown)
       => /\ shotWrites[1] = << <<"screenshot_", 1, ".png">> >>
          /\ shotWrites[2] = << <<"screenshot_", 2, ".png">> >>
          /\ rcptWrites[1] = << <<"receipt_", 1, ".pdf">> >>
          /\ rcptWrites[2] = << <<"receipt_", 2, ".pdf">> >>
          /\ {n \in DOMAIN screenshots : screenshots[n].fresh}
                = {<<"screenshot_", 1, ".png">>, <<"screenshot_", 2, ".png">>}
          /\ {n \in DOMAIN archive.entries : archive.entries[n].fresh}
                = {<<"receipt_", 1, ".pdf">>, <<"receipt_", 2, ".pdf">>}
          /\ DOMAIN archive.entries
                = startFiles \cup {<<"receipt_", 1, ".pdf">>, <<"receipt_", 2, ".pdf">>}

\* C5 witness: the run over rows 1 and 2 ended, no alert was shown, and the
\* zip also holds the file the directory began with
C5_Witness ==
    /\ pc = "done"
    /\ rows = <<1, 2>>
    /\ ~alertShown
    /\ ForeignName \in DOMAIN archive.entries
    /\ archive.entries[<<"receipt_", 2, ".pdf">>].fresh

\* C5 as stated: the run over rows 1 and 2 without any alert ends with
\* exactly 2 screenshots, exactly 2 receipts and a zip of exactly those 2
\* receipts.
C5_Original ==
    (pc = "done" /\ rows = <<1, 2>> /\ ~alertShown)
    => /\ Cardinality(DOMAIN screenshots) = 2
       /\ Cardinality(DOMAIN receipts) = 2
       /\ DOMAIN archive.entries = {<<"receipt_", 1, ".pdf">>, <<"receipt_", 2, ".pdf">>}
       /\ archive.entries = receipts

\* the rows f down to r that carry the order number of row r
SameOrder(r, f) == {k \in r..f : rows[k] = rows[r]}

\* no step for a row after f; the files of the rows before f are on disk as
\* a row of this run wrote them
BatchStoppedAt(f) ==
    /\ i = f
    /\ touched \subseteq 1..f
    /\ \A r \in RowIdx : r > f => (shotWrites[r] = <<>> /\ rcptWrites[r] = <<>>)
    /\ \A r \in 1..(f - 1) :
          /\ <<"screenshot_", rows[r], ".png">> \in DOMAIN screenshots
          /\ screenshots[<<"screenshot_", rows[r], ".png">>].fresh
          /\ screenshots[<<"screenshot_", rows[r], ".png">>].row \in SameOrder(r, f)
          /\ <<"receipt_", rows[r], ".pdf">> \in DOMAIN receipts
          /\ receipts[<<"receipt_", rows[r], ".pdf">>].fresh
          /\ receipts[<<"receipt_", rows[r], ".pdf">>].row \in SameOrder(r, f)

\* C6 as amended: when the submit of order f ends FAILED, or a step of order
\* f up to and including the rendering of its receipt raises, no receipt is
\* written for order f; when any step of order f raises, the click on
\* "order another" included, the run ends there: no step runs for a later
\* row, and the screenshots and receipts of the earlier rows stay on disk as
\* written (a file is only ever replaced by a later row of the same order
\* number).
C6_FailureStopsBatch ==
    error.stage \in OrderStages
    => /\ pc = "aborted"
       /\ BatchStoppedAt(error.row)
       /\ error.stage # "another" => rcptWrites[error.row] = <<>>

\* C6 witness: the second order ends FAILED, the files of the first are there
C6_Witness ==
    /\ error.kind = "retry"
    /\ error.row = 2
    /\ submitState = "FAILED"
    /\ rcptWrites[1] # <<>>
    /\ rcptWrites[2] = <<>>

\* C6 as stated: whatever step of order f raises, no receipt is written for
\* order f, no step runs for a later row and the earlier files stay.
C6_Original ==
    error.stage \in OrderStages
    => /\ pc = "aborted"
       /\ BatchStoppedAt(error.row)
       /\ rcptWrites[error.row] = <<>>

\* C7: a call of close_annoying_modal, after page load or after an order,
\* never ends the run; when its check returns not visible or raises, it
\* clicks nothing and the page is as before; when the check returns visible
\* it clicks OK once.
C7_ModalDismiss ==
    [][(pc \in {"modal0", "modal"} /\ pc' # pc)
       => /\ pc' = (IF pc = "modal0" THEN "download" ELSE "loop")
          /\ error' = error
          /\ alert' = alert
          /\ modalCheck' \in {"hidden", "raised", "visible"}
          /\ modalCheck' \in {"hidden", "raised"} => (okClicks' = 0 /\ modal' = modal)
          /\ modalCheck' = "visible" => okClicks' = 1
          /\ ~modal => (okClicks' = 0 /\ ~modal')]_vars

\* C7 witness: after an order the modal is shown, the check raised, nothing
\* was clicked and the run goes on
C7_Witness ==
    /\ pc = "loop"
    /\ i = 1
    /\ modalCheck = "raised"
    /\ okClicks = 0
    /\ modal
    /\ error.kind = "none"

\* C8: after any number of downloads the working directory holds one CSV
\* file, orders.csv, and its content is what the latest download was served.
C8_DownloadOverwrites ==
    downloads # EmptyDir
    => /\ DOMAIN downloads = {"orders.csv"}
       /\ downloads["orders.csv"] = feed

\* C8 witness: the second run downloaded a feed other than the file of the
\* first run
C8_Witness ==
    /\ run = 2
    /\ pc = "read"
    /\ replaced
    /\ Len(feed) = 1

Rank(s) ==
    CASE s = "fill" -> 1
      [] s = "preview" -> 2
      [] s = "screenshot" -> 3
      [] s = "click" -> 4
      [] s = "receipt" -> 5
      [] s = "another" -> 6
      [] s = "modal" -> 7
      [] OTHER -> 0

\* the steps of the current order are a beginning of fill, preview,
\* screenshot, submit clicks, receipt, order another, modal check
StepsInOrder ==
    /\ \A k \in 1..Len(steps) :
          Rank(steps[k]) =
             IF k = 1 THEN 1
             ELSE IF steps[k - 1] = "click" /\ steps[k] = "click" THEN 4
             ELSE Rank(steps[k - 1]) + 1
    /\ steps # <<>> => i \in 1..Len(rows)
    /\ clicks > 0 => (i \in RowIdx /\ Len(shotWrites[i]) = 1)
    /\ \A r \in RowIdx :
          rcptWrites[r] # <<>> => (r < i \/ (r = i /\ submitState = "SUCCEEDED"))
    /\ "receipt" \in Range(steps) => submitState = "SUCCEEDED"

\* C9: the steps of an order run in the order fill, preview, screenshot,
\* submit clicks, receipt, "order another", modal check; the screenshot is
\* written before the first submit click and the receipt only after the
\* submit SUCCEEDED; the rows are taken one by one in the order of the
\* table, the next one only after the modal check of the one before.
C9_StepOrder ==
    [][/\ StepsInOrder'
       /\ (i' # i /\ run' = run)
          => /\ i' = i + 1
             /\ i' <= Len(rows)
             /\ steps' = <<>>
             /\ i > 0 => (steps # <<>> /\ steps[Len(steps)] = "modal")]_vars

\* C9 witness: the second row went through all its steps, with one retry
C9_Witness ==
    /\ pc = "loop"
    /\ i = 2
    /\ steps = <<"fill", "preview", "screenshot", "click", "click",
                 "receipt", "another", "modal">>

\* C10: when the alert check raises, that attempt is the order's last: the
\* submit has SUCCEEDED with no further click, no retry error is raised, and
\* the receipt step is the next step, whether or not the alert is shown.
C10_CheckFailureIsSuccess ==
    \A k \in 1..Len(obs) :
        obs[k] = "raised"
        => /\ k = Len(obs)
           /\ clicks = k
           /\ submitState = "SUCCEEDED"
           /\ error.kind # "retry"
           /\ error.stage # "submit"
           /\ \/ pc = "receipt"
              \/ "receipt" \in Range(steps)
              \/ error.stage = "receipt"

\* C10 witness: the alert is shown, the second check raised, the receipt of
\* the order is written
C10_Witness ==
    /\ pc = "another"
    /\ alert
    /\ obs = <<"visible", "raised">>
    /\ clicks = 2
    /\ rcptWrites[i] # <<>>

====
